---------------------------- MODULE Spec2Model ----------------------------
(***************************************************************************)
(* A model of the SL departures proxy (src/main.go): the CustomTime JSON   *)
(* codec, and the request pipeline                                         *)
(*     query parameters -> upstream GET -> decode -> filter -> sort        *)
(*                      -> text report / JSON array.                       *)
(*                                                                         *)
(* Text is modelled by TLA+ strings: Len, SubSeq and \o are Go's len,      *)
(* slicing and concatenation.  A response body is the sequence of its      *)
(* lines; every write of the program ends its output with a newline        *)
(* (Fprintln, Fprintf with a trailing \n, json.Encoder.Encode, http.Error).*)
(*                                                                         *)
(* A time.Time is the record [day, sod, nsec]: whole days since            *)
(* 0001-01-01 (Go's zero Time), second of the day, nanosecond.  It is Go's *)
(* seconds count split by 86400, which keeps every number within 32 bits.  *)
(* All times are UTC: time.Parse of a layout without a zone yields UTC.    *)
(***************************************************************************)
EXTENDS Integers, Sequences, FiniteSets, TLC

VARIABLES
    codec,      \* the Time Codec exercised on its own: [pc, b, ct, old, err, out]
    pc,         \* the request's position: "idle", "done" or "panicked"
    req,        \* the inbound request: [endpoint, siteId, lineId, direction]
    upstream,   \* what the provider did when called: [kind, departures]
    gets,       \* number of upstream GETs issued for the request
    mem,        \* backing arrays of the slices: response.Departures and filtered
    filtered,   \* the records filterDepartures returned, in its order
    ret,        \* what getDepartures returned: [departures (a slice), siteID, err]
    resp        \* the HTTP response: [status, contentType, body]

vars == <<codec, pc, req, upstream, gets, mem, filtered, ret, resp>>

pipeVars == <<pc, req, upstream, gets, mem, filtered, ret, resp>>

-----------------------------------------------------------------------------
(* Bounds of the model. *)

\* longest upstream departure list drawn from the full record alphabet
MaxLen == 3

\* length of the long upstream lists (drawn from a three-record alphabet)
LongLen == 7

\* longest string of the short inputs handed to UnmarshalJSON
MaxShort == 2

-----------------------------------------------------------------------------
(* Characters and integers as text. *)

Quote == "\""

Digits == <<"0", "1", "2", "3", "4", "5", "6", "7", "8", "9">>

Char(s, i) == SubSeq(s, i, i)

isDigit(s, i) == i <= Len(s) /\ \E k \in 1..10 : Digits[k] = Char(s, i)

DigitVal(c) == (CHOOSE k \in 1..10 : Digits[k] = c) - 1

RECURSIVE Pow10(_)
Pow10(k) == IF k = 0 THEN 1 ELSE 10 * Pow10(k - 1)

\* decimal digits of n >= 0, no padding
RECURSIVE FormatUint(_)
FormatUint(n) ==
    IF n < 10 THEN Digits[n + 1] ELSE FormatUint(n \div 10) \o Digits[(n % 10) + 1]

\* fmt's %d
Itoa(n) == IF n < 0 THEN "-" \o FormatUint(-n) ELSE FormatUint(n)

\* time.appendInt(b, x, width): zero-padded to width
RECURSIVE appendInt(_, _)
appendInt(x, width) ==
    IF width <= 1 \/ x >= Pow10(width - 1)
    THEN FormatUint(x)
    ELSE "0" \o appendInt(x, width - 1)

\* value of a string of digits (time.atoi / leadingInt on a digits-only string)
RECURSIVE DigitsVal(_)
DigitsVal(s) ==
    IF Len(s) = 0 THEN 0
    ELSE 10 * DigitsVal(SubSeq(s, 1, Len(s) - 1)) + DigitVal(Char(s, Len(s)))

AllDigits(s) == \A i \in 1..Len(s) : isDigit(s, i)

-----------------------------------------------------------------------------
(* The calendar of package time. *)

isLeap(year) == year % 4 = 0 /\ (year % 100 # 0 \/ year % 400 = 0)

\* time.daysBefore[m]: days of a non-leap year before month m+1
daysBefore == <<0, 31, 59, 90, 120, 151, 181, 212, 243, 273, 304, 334, 365>>

\* time.daysIn(m, year)
daysIn(m, year) ==
    IF m = 2 /\ isLeap(year) THEN 29 ELSE daysBefore[m + 1] - daysBefore[m]

\* days from 0001-01-01 to January 1 of year (time.daysSinceEpoch, rebased)
daysSinceEpoch(year) ==
    LET y == year - 1
    IN  365 * y + (y \div 4) - (y \div 100) + (y \div 400)

\* time.Date(year, month, day, hour, min, sec, nsec, UTC) for in-range fields
Date(year, month, day, hour, min, sec, nsec) ==
    [day  |-> daysSinceEpoch(year) + daysBefore[month]
                + (IF isLeap(year) /\ month >= 3 THEN 1 ELSE 0) + (day - 1),
     sod  |-> hour * 3600 + min * 60 + sec,
     nsec |-> nsec]

\* the zero time.Time: 0001-01-01T00:00:00
ZeroTime == [day |-> 0, sod |-> 0, nsec |-> 0]

\* Time.absDate: year and day of the year (0-based) of a day count
absDate(days) ==
    LET n400 == days \div 146097
        r0   == days % 146097
        q100 == r0 \div 36524
        n100 == IF q100 > 3 THEN 3 ELSE q100
        r1   == r0 - 36524 * n100
        n4   == r1 \div 1461
        r2   == r1 - 1461 * n4
        q1   == r2 \div 365
        n1   == IF q1 > 3 THEN 3 ELSE q1
    IN  [year |-> 400 * n400 + 100 * n100 + 4 * n4 + n1 + 1,
         yday |-> r2 - 365 * n1]

\* Time.date, after absDate: the month and the day of the month of day
\* yday of year
monthDay(year, yday) ==
    LET leap == isLeap(year)
        d    == IF leap /\ yday > 31 + 29 - 1 THEN yday - 1 ELSE yday
        m0   == d \div 31
        m    == IF d >= daysBefore[m0 + 2] THEN m0 + 2 ELSE m0 + 1
    IN  IF leap /\ yday = 31 + 29 - 1 THEN [year |-> year, month |-> 2, day |-> 29]
        ELSE [year |-> year, month |-> m, day |-> d - daysBefore[m] + 1]

civilOf(a) == monthDay(a.year, a.yday)

\* Time.date: year, month and day of the month
civil(days) == civilOf(absDate(days))

-----------------------------------------------------------------------------
(* time.Parse and Time.Format for the two layouts the program uses. *)

\* time.getnum(s, fixed): one or two leading digits; two are required when fixed
getnum(s, fixed) ==
    IF ~isDigit(s, 1) THEN [ok |-> FALSE, n |-> 0, rest |-> s]
    ELSE IF ~isDigit(s, 2)
         THEN IF fixed THEN [ok |-> FALSE, n |-> 0, rest |-> s]
              ELSE [ok |-> TRUE, n |-> DigitVal(Char(s, 1)), rest |-> SubSeq(s, 2, Len(s))]
         ELSE [ok |-> TRUE, n |-> DigitsVal(SubSeq(s, 1, 2)), rest |-> SubSeq(s, 3, Len(s))]

\* a parse in progress: the text left, the fields read so far
ParseStart(value) ==
    [ok |-> TRUE, value |-> value,
     f |-> [year |-> 0, month |-> 0, day |-> 0, hour |-> 0, min |-> 0, sec |-> 0, nsec |-> 0]]

\* layout element "2006": exactly four digits
parseLongYear(st) ==
    IF ~st.ok THEN st
    ELSE IF Len(st.value) < 4 \/ ~isDigit(st.value, 1) \/ ~AllDigits(SubSeq(st.value, 1, 4))
         THEN [st EXCEPT !.ok = FALSE]
         ELSE [st EXCEPT !.value = SubSeq(@, 5, Len(@)),
                         !.f.year = DigitsVal(SubSeq(st.value, 1, 4))]

\* a literal character of the layout ("-", "T", ":"): time.skip
skip(st, c) ==
    IF ~st.ok THEN st
    ELSE IF Len(st.value) = 0 \/ Char(st.value, 1) # c
         THEN [st EXCEPT !.ok = FALSE]
         ELSE [st EXCEPT !.value = SubSeq(@, 2, Len(@))]

\* a numeric layout element with its range check (lo <= n <= hi)
parseNum(st, field, fixed, lo, hi) ==
    IF ~st.ok THEN st
    ELSE LET g == getnum(st.value, fixed)
         IN  IF ~g.ok \/ g.n < lo \/ g.n > hi
             THEN [st EXCEPT !.ok = FALSE]
             ELSE [st EXCEPT !.value = g.rest, !.f[field] = g.n]

\* index of the first non-digit of s at or after i (Len(s)+1 when none)
RECURSIVE digitsEnd(_, _)
digitsEnd(s, i) == IF isDigit(s, i) THEN digitsEnd(s, i + 1) ELSE i

\* after the seconds: a fractional second is read although the layout has none
\* (time.Parse's special case and parseNanoseconds, at most 9 digits kept)
parseFraction(st) ==
    IF ~st.ok THEN st
    ELSE IF Len(st.value) >= 2 /\ Char(st.value, 1) = "." /\ isDigit(st.value, 2)
         THEN LET n    == digitsEnd(st.value, 3) - 1
                  kept == IF n > 10 THEN 10 ELSE n
              IN  [st EXCEPT !.value = SubSeq(@, n + 1, Len(@)),
                             !.f.nsec = DigitsVal(SubSeq(st.value, 2, kept))
                                          * Pow10(10 - kept)]
         ELSE st

\* the end of the layout: no text may be left, and the day must exist
parseEnd(st) ==
    IF ~st.ok THEN st
    ELSE IF Len(st.value) # 0 \/ st.f.day < 1 \/ st.f.day > daysIn(st.f.month, st.f.year)
         THEN [st EXCEPT !.ok = FALSE]
         ELSE st

\* the text of a *time.ParseError, cut after the value it names
ParseErrorText(value) == "parsing time " \o Quote \o value \o Quote

\* the result of time.Parse: [err, t], err = "" for nil
parsed(value, st) ==
    IF st.ok
    THEN [err |-> "",
          t |-> Date(st.f.year, st.f.month, st.f.day, st.f.hour, st.f.min,
                     st.f.sec, st.f.nsec)]
    ELSE [err |-> ParseErrorText(value), t |-> ZeroTime]

\* time.Parse("2006-01-02T15:04:05", value): the layout's elements in turn
Parse(value) ==
    LET s0 == parseLongYear(ParseStart(value))
        s1 == parseNum(skip(s0, "-"), "month", TRUE, 1, 12)
        s2 == parseNum(skip(s1, "-"), "day", TRUE, 0, 99)
        s3 == parseNum(skip(s2, "T"), "hour", FALSE, 0, 23)
        s4 == parseNum(skip(s3, ":"), "min", TRUE, 0, 59)
        s5 == parseNum(skip(s4, ":"), "sec", TRUE, 0, 59)
    IN  parsed(value, parseEnd(parseFraction(s5)))

\* layout elements "2006-01-02": the date c
formatDate(c) ==
    appendInt(c.year, 4) \o "-" \o appendInt(c.month, 2) \o "-" \o appendInt(c.day, 2)

\* layout elements "15:04" with hour h
formatClock(h, t) == appendInt(h, 2) \o ":" \o appendInt((t.sod % 3600) \div 60, 2)

\* a layout's text around the hour and minute hm
formatLayout(t, layout, hm) ==
    IF layout = "15:04" THEN hm
    ELSE formatDate(civil(t.day)) \o "T" \o hm \o ":" \o appendInt(t.sod % 60, 2)

\* the 12-hour clock ("03") in place of the 24-hour clock ("15")
FormatTwelveHour(t, layout) ==
    formatLayout(t, layout,
                 formatClock(IF (t.sod \div 3600) % 12 = 0 THEN 12
                             ELSE (t.sod \div 3600) % 12, t))

\* Time.Format(layout) for layout "2006-01-02T15:04:05" or "15:04"
Format(t, layout) == formatLayout(t, layout, formatClock(t.sod \div 3600, t))

\* Time.Before
Before(t, u) ==
    \/ t.day < u.day
    \/ t.day = u.day /\ t.sod < u.sod
    \/ t.day = u.day /\ t.sod = u.sod /\ t.nsec < u.nsec

-----------------------------------------------------------------------------
(* CustomTime's JSON codec. *)

\* json.Marshal of a string of digits, "-", "T" and ":" (nothing to escape)
MarshalJSON(ct) == Quote \o Format(ct, "2006-01-02T15:04:05") \o Quote

\* lines 43-47: return the error, or assign the time and return nil
assignParsed(ct, p) ==
    IF p.err # ""
    THEN [panic |-> FALSE, err |-> p.err, ct |-> ct]
    ELSE [panic |-> FALSE, err |-> "", ct |-> p.t]

\* UnmarshalJSON on receiver value ct: [panic, err, ct].  s[1 : len(s)-1]
\* panics (slice bounds out of range) when len(s) < 2; ct is assigned only
\* after a successful parse.
UnmarshalJSON(ct, b) ==
    IF 1 > Len(b) - 1
    THEN [panic |-> TRUE, err |-> "", ct |-> ct]
    ELSE assignParsed(ct, Parse(SubSeq(b, 2, Len(b) - 1)))

-----------------------------------------------------------------------------
(* The Time Codec on its own: one decode of an input, then one encode of   *)
(* the decoded value.                                                      *)

\* all strings over alphabet of length at most n
RECURSIVE StringsUpTo(_, _)
StringsUpTo(alphabet, n) ==
    IF n = 0 THEN {""}
    ELSE LET shorter == StringsUpTo(alphabet, n - 1)
         IN  shorter \cup {s \o c : s \in shorter, c \in alphabet}

\* inputs of fewer than two bytes, and a few more: a lone quote, a one-digit
\* JSON number, an empty JSON string
ShortInputs == StringsUpTo({Quote, "5"}, MaxShort)

\* texts shaped YYYY-MM-DDTHH:MM:SS, with fields inside and outside their ranges
Stamp(y, mo, d, sep, h, mi, sec) ==
    y \o "-" \o mo \o "-" \o d \o sep \o h \o ":" \o mi \o ":" \o sec

PatternInputs ==
    {Quote \o Stamp(y, mo, d, "T", h, mi, sec) \o Quote :
        y \in {"0000", "1900", "2023", "2024"}, mo \in {"01", "02", "12", "13"},
        d \in {"00", "01", "29", "30", "31"}, h \in {"00", "08", "13", "23", "24"},
        mi \in {"00", "59", "60"}, sec \in {"00", "45", "60"}}

\* texts near the pattern: other delimiters, a one-digit hour, text after the
\* seconds
NearInputs ==
    {w[1] \o Stamp("2024", "02", "29", sep, h, "30", "00") \o tail \o w[2] :
        w \in {<<Quote, Quote>>, <<"x", "y">>, <<"", "">>}, sep \in {"T", " "},
        h \in {"08", "8"}, tail \in {"", ".5", "Z"}}

CodecInputs == ShortInputs \cup PatternInputs \cup NearInputs

\* values the receiver holds before the decode
Receivers == {ZeroTime, Date(2000, 1, 1, 12, 0, 0, 0)}

CodecIdle ==
    [pc |-> "start", b |-> "", ct |-> ZeroTime, old |-> ZeroTime, err |-> "", out |-> ""]

\* ct.UnmarshalJSON(b)
CodecUnmarshal ==
    /\ codec.pc = "start"
    /\ \E b \in CodecInputs :
         LET r == UnmarshalJSON(codec.ct, b)
         IN  codec' = [pc  |-> IF r.panic THEN "panicked"
                               ELSE IF r.err # "" THEN "failed" ELSE "decoded",
                       b   |-> b,
                       ct  |-> r.ct,
                       old |-> codec.ct,
                       err |-> r.err,
                       out |-> ""]
    /\ UNCHANGED pipeVars

\* ct.MarshalJSON() of the value just decoded
CodecMarshal ==
    /\ codec.pc = "decoded"
    /\ codec' = [codec EXCEPT !.pc = "encoded", !.out = MarshalJSON(codec.ct)]
    /\ UNCHANGED pipeVars

-----------------------------------------------------------------------------
(* Slices and their backing arrays.  A slice is [arr, len]: the array it   *)
(* points into and its length; the nil slice points nowhere.  mem maps     *)
(* each array to its contents.                                             *)

NilSlice == [arr |-> "nil", len |-> 0]

EmptyMem == [response |-> <<>>, filtered |-> <<>>]

\* the elements of slice sl
Elems(m, sl) == IF sl.len = 0 THEN <<>> ELSE SubSeq(m[sl.arr], 1, sl.len)

\* append(sl, d): a nil slice gets a fresh array; otherwise d is written after
\* the slice's last element, in the slice's own array
appendSlice(m, sl, d) ==
    IF sl.arr = "nil"
    THEN [mem |-> [m EXCEPT !.filtered = <<d>>], slice |-> [arr |-> "filtered", len |-> 1]]
    ELSE [mem |-> [m EXCEPT ![sl.arr] =
                       SubSeq(@, 1, sl.len) \o <<d>> \o SubSeq(@, sl.len + 2, Len(@))],
          slice |-> [sl EXCEPT !.len = @ + 1]]

-----------------------------------------------------------------------------
(* The provider's records the model draws from, as they stand in the       *)
(* provider's JSON document.                                               *)

\* a timestamp of the provider, as the JSON token of the document
Token(hms) == Quote \o "2024-01-15T" \o hms \o Quote

Raw(destination, direction, scheduled, expected, id, designation) ==
    [destination |-> destination, direction |-> direction,
     scheduled |-> scheduled, expected |-> expected,
     line |-> [id |-> id, designation |-> designation]]

\* five minutes late
Downtown == Raw("Downtown", "North", Token("08:00:00"), Token("08:05:00"), 10, "1")

\* on time, another line and direction
Uptown == Raw("Uptown", "South", Token("08:10:00"), Token("08:10:00"), 20, "2")

\* on time, expected together with Downtown
Airport == Raw("Airport", "North", Token("08:05:00"), Token("08:05:00"), 10, "1")

\* 45 seconds early, across a minute boundary; direction in lower case
Harbour == Raw("Harbour", "north", Token("08:00:30"), Token("07:59:45"), 10, "1")

\* a timestamp without its date
Depot == Raw("Depot", "North", Quote \o "08:00" \o Quote, Token("08:00:00"), 10, "1")

\* a timestamp given as a one-digit JSON number
Yard == Raw("Yard", "North", "5", Token("08:00:00"), 10, "1")

RawDepartures == {Downtown, Uptown, Airport, Harbour, Depot, Yard}

-----------------------------------------------------------------------------
(* fetchDepartures: one GET, then json.Unmarshal into Response. *)

\* fmt.Sprintf(baseURL, siteID)
baseURL(siteID) == "https://transport.integration.sl.se/v1/sites/" \o siteID \o "/departures"

\* one element of "departures": both timestamps go through UnmarshalJSON, in
\* the order of the document; the first failure ends the decode
decodedDeparture(raw, sch, exp) ==
    IF sch.panic THEN [panic |-> TRUE, err |-> "", d |-> <<>>]
    ELSE IF sch.err # "" THEN [panic |-> FALSE, err |-> sch.err, d |-> <<>>]
    ELSE IF exp.panic THEN [panic |-> TRUE, err |-> "", d |-> <<>>]
    ELSE IF exp.err # "" THEN [panic |-> FALSE, err |-> exp.err, d |-> <<>>]
    ELSE [panic |-> FALSE, err |-> "",
          d |-> [Destination |-> raw.destination,
                 Direction   |-> raw.direction,
                 Scheduled   |-> sch.ct,
                 Expected    |-> exp.ct,
                 Line        |-> [ID |-> raw.line.id,
                                  Designation |-> raw.line.designation]]]

\* json.Unmarshal of one Departure
decodeDeparture(raw) ==
    decodedDeparture(raw, UnmarshalJSON(ZeroTime, raw.scheduled),
                          UnmarshalJSON(ZeroTime, raw.expected))

\* decodeDeparture of each record of the provider, computed once: equal
\* documents decode alike
DecodedRaw == [raw \in RawDepartures |-> decodeDeparture(raw)]

\* the "departures" array, element by element: r is element i decoded
RECURSIVE decodeDepartures(_, _, _)
decodeNext(raws, i, acc, r) ==
    IF r.panic \/ r.err # ""
    THEN [panic |-> r.panic, err |-> r.err, departures |-> <<>>]
    ELSE decodeDepartures(raws, i + 1, Append(acc, r.d))

decodeDepartures(raws, i, acc) ==
    IF i > Len(raws) THEN [panic |-> FALSE, err |-> "", departures |-> acc]
    ELSE decodeNext(raws, i, acc, DecodedRaw[raws[i]])

\* a return of fetchDepartures with an error
fetchError(msg) ==
    [panic |-> FALSE, gets |-> 1, err |-> msg, slice |-> NilSlice, departures |-> <<>>]

\* lines 121-126: the outcome dec of json.Unmarshal(body, &response)
unmarshalled(dec) ==
    IF dec.panic
    THEN [panic |-> TRUE, gets |-> 1, err |-> "", slice |-> NilSlice, departures |-> <<>>]
    ELSE IF dec.err # ""
    THEN fetchError("error parsing JSON: " \o dec.err)
    ELSE [panic |-> FALSE, gets |-> 1, err |-> "",
          slice |-> [arr |-> "response", len |-> Len(dec.departures)],
          departures |-> dec.departures]

\* fetchDepartures(siteID) when the provider answers up:
\* [panic, gets, err, slice, departures]
fetchDepartures(siteID, up) ==
    CASE up.kind = "refused" ->
           fetchError("error making request: Get " \o Quote \o baseURL(siteID) \o Quote
                        \o ": connection refused")
      [] up.kind = "unreadable" ->
           fetchError("error reading response body: unexpected EOF")
      [] up.kind = "malformed" ->
           fetchError("error parsing JSON: unexpected end of JSON input")
      [] up.kind = "nokey" ->
           [panic |-> FALSE, gets |-> 1, err |-> "", slice |-> NilSlice, departures |-> <<>>]
      [] up.kind = "list" ->
           unmarshalled(decodeDepartures(up.departures, 1, <<>>))

-----------------------------------------------------------------------------
(* filterDepartures. *)

\* strconv.Atoi on a string of fewer than 19 bytes: [err, n]
Atoi(s) ==
    LET signed == Len(s) > 0 /\ Char(s, 1) \in {"-", "+"}
        body   == IF signed THEN SubSeq(s, 2, Len(s)) ELSE s
    IN  IF Len(body) < 1 \/ ~AllDigits(body)
        THEN [err |-> TRUE, n |-> 0]
        ELSE [err |-> FALSE,
              n |-> IF Char(s, 1) = "-" THEN -DigitsVal(body) ELSE DigitsVal(body)]

\* a lineId that does not parse restricts nothing
skippedIgnoringAtoiError(d, lineID, direction) ==
    \/ /\ lineID # ""
       /\ ~Atoi(lineID).err /\ d.Line.ID # Atoi(lineID).n
    \/ direction # "" /\ d.Direction # direction

\* the loop body's two `continue`s: whether record d is left out
skipped(d, lineID, direction) ==
    \/ /\ lineID # ""
       /\ Atoi(lineID).err \/ d.Line.ID # Atoi(lineID).n
    \/ direction # "" /\ d.Direction # direction

\* the loop over departures from index i on, appending to slice out
RECURSIVE filterLoop(_, _, _, _, _, _)
filterLoop(m, departures, i, out, lineID, direction) ==
    IF i > departures.len THEN [mem |-> m, slice |-> out]
    ELSE LET d == Elems(m, departures)[i]
         IN  IF skipped(d, lineID, direction)
             THEN filterLoop(m, departures, i + 1, out, lineID, direction)
             ELSE LET a == appendSlice(m, out, d)
                  IN  filterLoop(a.mem, departures, i + 1, a.slice, lineID, direction)

\* filtering in place: filtered := departures[:0]
filterDeparturesInPlace(m, departures, lineID, direction) ==
    filterLoop(m, departures, 1, [arr |-> departures.arr, len |-> 0], lineID, direction)

\* filterDepartures(departures, lineID, direction): var filtered []Departure
\* starts nil
filterDepartures(m, departures, lineID, direction) ==
    filterLoop(m, departures, 1, NilSlice, lineID, direction)

-----------------------------------------------------------------------------
(* sort.Slice(filteredDepartures, less).  The standard library sorts a     *)
(* slice of at most 12 elements by insertion sort; up to Go 1.18 one pass  *)
(* of Shell sort with gap 6 runs first (quickSort_func), from Go 1.19 on   *)
(* (pdqsort_func) it does not.  The build decides which.                   *)

GoBuilds == {"quickSort", "pdqsort"}

Swap(s, i, j) == [s EXCEPT ![i] = s[j], ![j] = s[i]]

\* ordering by scheduled time
lessByScheduled(s, i, j) == Before(s[i].Scheduled, s[j].Scheduled)

\* the comparison handed to sort.Slice
less(s, i, j) == Before(s[i].Expected, s[j].Expected)

\* for j := i; j > a && less(j, j-1); j-- { swap(j, j-1) }
RECURSIVE insertDown(_, _)
insertDown(s, j) ==
    IF j > 1 /\ less(s, j, j - 1) THEN insertDown(Swap(s, j, j - 1), j - 1) ELSE s

\* insertionSort_func: for i := a + 1; i < b; i++
RECURSIVE insertionSort(_, _)
insertionSort(s, i) ==
    IF i > Len(s) THEN s ELSE insertionSort(insertDown(s, i), i + 1)

\* for i := a + 6; i < b; i++ { if less(i, i-6) { swap(i, i-6) } }
RECURSIVE shellPass(_, _)
shellPass(s, i) ==
    IF i > Len(s) THEN s
    ELSE shellPass(IF less(s, i, i - 6) THEN Swap(s, i, i - 6) ELSE s, i + 1)

\* sort.Slice on elements s (at most 12) under a build
SortSlice(s, build) ==
    IF build = "quickSort"
    THEN IF Len(s) > 1 THEN insertionSort(shellPass(s, 7), 2) ELSE s
    ELSE insertionSort(s, 2)

\* sorting writes into the slice's own array
sortInPlace(m, sl, build) ==
    IF sl.arr = "nil" THEN m
    ELSE [m EXCEPT ![sl.arr] = SortSlice(SubSeq(@, 1, sl.len), build)
                                  \o SubSeq(@, sl.len + 1, Len(@))]

-----------------------------------------------------------------------------
(* getDepartures. *)

\* the result of getDepartures and what it did on the way
Outcome(panic, n, m, flt, sl, siteID, err) ==
    [panic |-> panic, gets |-> n, mem |-> m, filtered |-> flt,
     departures |-> sl, siteID |-> siteID, err |-> err]

\* lines 99-103: sort what the filter returned (fl), and return it
sortAndReturn(r, build, fl) ==
    Outcome(FALSE, 1, sortInPlace(fl.mem, fl.slice, build), Elems(fl.mem, fl.slice),
            fl.slice, r.siteId, "")

\* lines 90-103: f is what fetchDepartures returned
fetched(r, build, f) ==
    IF f.panic THEN Outcome(TRUE, f.gets, EmptyMem, <<>>, NilSlice, r.siteId, "")
    ELSE IF f.err # ""
    THEN Outcome(FALSE, f.gets, EmptyMem, <<>>, NilSlice, r.siteId, f.err)
    ELSE sortAndReturn(r, build,
                       filterDepartures([EmptyMem EXCEPT !.response = f.departures],
                                        f.slice, r.lineId, r.direction))

\* lines 89-103: fetch, filter, sort
fetchFilterSort(r, up, build) == fetched(r, build, fetchDepartures(r.siteId, up))

\* the pipeline without the siteId check
getDeparturesUnchecked(r, up, build) == fetchFilterSort(r, up, build)

\* getDepartures(r): the siteId check, then the pipeline
getDepartures(r, up, build) ==
    IF r.siteId = ""
    THEN Outcome(FALSE, 0, EmptyMem, <<>>, NilSlice, "",
                 "siteId query parameter is required")
    ELSE fetchFilterSort(r, up, build)

-----------------------------------------------------------------------------
(* Rendering. *)

\* Time.Sub for times less than 68 years apart: the duration as whole
\* seconds and nanoseconds, sec * 10^9 + nsec with 0 <= nsec < 10^9
Sub(t, u) ==
    LET secs == (t.day - u.day) * 86400 + (t.sod - u.sod)
        ns   == t.nsec - u.nsec
    IN  IF ns < 0 THEN [sec |-> secs - 1, nsec |-> ns + 1000000000]
        ELSE [sec |-> secs, nsec |-> ns]

\* int(delay.Minutes()): Minutes is the whole minutes plus the rest as a
\* fraction, a float64; its conversion to int drops the fraction, towards zero
intMinutes(d) ==
    IF d.sec >= 0 THEN d.sec \div 60
    ELSE -(((-d.sec) - (IF d.nsec > 0 THEN 1 ELSE 0)) \div 60)

Divider == "--------------------"

\* lines 163-173: the lines of d's block, given the two formatted times
blockLines(d, scheduledTime, expectedTime) ==
    << "Line " \o d.Line.Designation \o " (ID: " \o Itoa(d.Line.ID) \o ") to "
          \o d.Destination,
       "  Direction: " \o d.Direction,
       "  Scheduled: " \o scheduledTime,
       "  Expected:  " \o expectedTime >>
    \o (IF scheduledTime # expectedTime
        THEN << "  Delay:     " \o Itoa(intMinutes(Sub(d.Expected, d.Scheduled)))
                  \o " minutes" >>
        ELSE << >>)
    \o << Divider >>

\* one pass of the loop of prettyPrintDepartures
Block(d) == blockLines(d, Format(d.Scheduled, "15:04"), Format(d.Expected, "15:04"))

RECURSIVE Blocks(_, _)
Blocks(departures, i) ==
    IF i > Len(departures) THEN << >>
    ELSE Block(departures[i]) \o Blocks(departures, i + 1)

\* prettyPrintDepartures(w, departures, siteID): the lines written to w
prettyPrintDepartures(departures, siteID) ==
    IF Len(departures) = 0
    THEN << "No departures found matching the criteria for site ID: " \o siteID >>
    ELSE << "Upcoming Departures for site ID " \o siteID
              \o " (sorted by expected departure time):",
            Divider >>
         \o Blocks(departures, 1)

\* json.Marshal of a string of plain letters and digits
jsonString(str) == Quote \o str \o Quote

\* json.Marshal of a Departure
encodeDeparture(d) ==
    "{" \o jsonString("destination") \o ":" \o jsonString(d.Destination)
        \o "," \o jsonString("direction") \o ":" \o jsonString(d.Direction)
        \o "," \o jsonString("scheduled") \o ":" \o MarshalJSON(d.Scheduled)
        \o "," \o jsonString("expected") \o ":" \o MarshalJSON(d.Expected)
        \o "," \o jsonString("line") \o ":{" \o jsonString("id") \o ":" \o Itoa(d.Line.ID)
        \o "," \o jsonString("designation") \o ":" \o jsonString(d.Line.Designation)
        \o "}}"

RECURSIVE encodeElements(_, _)
encodeElements(ds, i) ==
    IF i > Len(ds) THEN ""
    ELSE (IF i > 1 THEN "," ELSE "") \o encodeDeparture(ds[i]) \o encodeElements(ds, i + 1)

\* json.NewEncoder(w).Encode(departures): a nil slice is null, any other an
\* array; one line
Encode(m, sl) ==
    IF sl.arr = "nil" THEN << "null" >>
    ELSE << "[" \o encodeElements(Elems(m, sl), 1) \o "]" >>

-----------------------------------------------------------------------------
(* The handlers. *)

NoResponse == [status |-> 0, contentType |-> "", body |-> << >>]

\* http.Error(w, msg, code)
httpError(msg, code) ==
    [status |-> code, contentType |-> "text/plain; charset=utf-8", body |-> << msg >>]

\* what a handler leaves behind; a panic ends the request without a response
\* (net/http recovers it and closes the connection)
Handled(g, response) ==
    [pc   |-> IF g.panic THEN "panicked" ELSE "done",
     gets |-> g.gets, mem |-> g.mem, filtered |-> g.filtered,
     ret  |-> [departures |-> g.departures, siteID |-> g.siteID, err |-> g.err],
     resp |-> IF g.panic THEN NoResponse ELSE response]

\* lines 61-66: g is what getDepartures returned
respondText(g) ==
    IF g.panic THEN Handled(g, NoResponse)
    ELSE IF g.err # ""
    THEN Handled(g, httpError("Error fetching departure data: " \o g.err, 500))
    ELSE Handled(g, [status |-> 200, contentType |-> "text/plain; charset=utf-8",
                     body |-> prettyPrintDepartures(Elems(g.mem, g.departures),
                                                    g.siteID)])

\* handleDepartures(w, r)
handleDepartures(r, up, build) == respondText(getDepartures(r, up, build))

\* the slice handed on as it is
keepNil(sl) == sl

\* if len(departures) == 0 { departures = []Departure{} }
emptyIfNone(sl) == IF sl.len = 0 THEN [arr |-> "empty", len |-> 0] ELSE sl

\* lines 71-80: g is what getDepartures returned
respondJSON(g) ==
    IF g.panic THEN Handled(g, NoResponse)
    ELSE IF g.err # ""
    THEN Handled(g, httpError("Error fetching departure data: " \o g.err, 500))
    ELSE Handled(g, [status |-> 200, contentType |-> "application/json",
                     body |-> Encode(g.mem, emptyIfNone(g.departures))])

\* handleDeparturesJSON(w, r)
handleDeparturesJSON(r, up, build) == respondJSON(getDepartures(r, up, build))

-----------------------------------------------------------------------------
(* The requests and the provider's answers the model draws from. *)

SiteIds == {"", "9001"}

LineIds == {"", "10", "20", "abc", "010", "+10"}

Directions == {"", "North", "north"}

Requests == [siteId : SiteIds, lineId : LineIds, direction : Directions]

\* the records of the long lists: two expected together, one before them
TieDepartures == {Downtown, Airport, Harbour}

SeqsUpTo(S, n) == UNION {[1..k -> S] : k \in 0..n}

Answer(kind, departures) == [kind |-> kind, departures |-> departures]

NotCalled == Answer("notcalled", << >>)

\* connection refused; body cut short; body not JSON; JSON without
\* "departures"; a list of departures
Upstreams ==
    {Answer(k, << >>) : k \in {"refused", "unreadable", "malformed", "nokey"}}
      \cup {Answer("list", l) : l \in SeqsUpTo(RawDepartures, MaxLen)}

LongUpstreams == {Answer("list", l) : l \in [1..LongLen -> TieDepartures]}

Inputs ==
    (Requests \X Upstreams)
      \cup ({[siteId |-> "9001", lineId |-> "", direction |-> ""]} \X LongUpstreams)

-----------------------------------------------------------------------------
(* The state machine: one request, handled by one of the two handlers.     *)
(* Requests share no state, so one request stands for each of them.        *)

NoRequest == [endpoint |-> "", siteId |-> "", lineId |-> "", direction |-> ""]

Idle ==
    /\ pc = "idle"
    /\ req = NoRequest
    /\ upstream = NotCalled
    /\ gets = 0
    /\ mem = EmptyMem
    /\ filtered = << >>
    /\ ret = [departures |-> NilSlice, siteID |-> "", err |-> ""]
    /\ resp = NoResponse

Init == Idle /\ codec = CodecIdle

\* the state a handler leaves: h is what the handler did for request r
Serve(endpoint, r, up, h) ==
    /\ pc' = h.pc
    /\ req' = [endpoint |-> endpoint, siteId |-> r.siteId, lineId |-> r.lineId,
               direction |-> r.direction]
    /\ upstream' = IF h.gets = 0 THEN NotCalled ELSE up
    /\ gets' = h.gets
    /\ mem' = h.mem
    /\ filtered' = h.filtered
    /\ ret' = h.ret
    /\ resp' = h.resp
    /\ UNCHANGED codec

\* GET /departures
HandleDepartures ==
    /\ pc = "idle"
    /\ \E in \in Inputs, build \in GoBuilds :
         Serve("/departures", in[1], in[2], handleDepartures(in[1], in[2], build))

\* GET /departures/json
HandleDeparturesJSON ==
    /\ pc = "idle"
    /\ \E in \in Inputs, build \in GoBuilds :
         Serve("/departures/json", in[1], in[2], handleDeparturesJSON(in[1], in[2], build))

Next == HandleDepartures \/ HandleDeparturesJSON

Spec == Init /\ [][Next]_vars

InitCodec ==
    /\ Idle
    /\ codec \in {[CodecIdle EXCEPT !.ct = c, !.old = c] : c \in Receivers}

NextCodec == CodecUnmarshal \/ CodecMarshal

SpecCodec == InitCodec /\ [][NextCodec]_vars

-----------------------------------------------------------------------------
(* What the claims speak of. *)

\* getDepartures returned a list (no error, no panic)
Succeeded == pc = "done" /\ ret.err = ""

\* the list getDepartures returned
Returned == Elems(mem, ret.departures)

\* response.Departures as decoded from the provider's answer
Delivered == fetchDepartures(req.siteId, upstream).departures

\* the decimal spellings of integer n: an optional sign, leading zeros
DecimalSpellings(n) ==
    {sg \o z \o FormatUint(IF n < 0 THEN -n ELSE n) :
        sg \in (IF n < 0 THEN {"-"} ELSE IF n = 0 THEN {"", "+", "-"} ELSE {"", "+"}),
        z \in {"", "0", "00"}}

\* the filter rule as the specification words it
Survives(d) ==
    /\ req.lineId = "" \/ req.lineId \in DecimalSpellings(d.Line.ID)
    /\ req.direction = "" \/ req.direction = d.Direction

SortedByExpected(l) ==
    \A i \in 1..(Len(l) - 1) : ~Before(l[i + 1].Expected, l[i].Expected)

Occurrences(l, d) == Cardinality({i \in DOMAIN l : l[i] = d})

SameRecords(a, b) ==
    /\ Len(a) = Len(b)
    /\ \A i \in DOMAIN a : Occurrences(a, a[i]) = Occurrences(b, a[i])

\* the records of l expected at time t, in l's order
ExpectedAt(l, t) == LET At(d) == d.Expected = t IN SelectSeq(l, At)

\* the quoted pattern YYYY-MM-DDTHH:MM:SS, character by character
MatchesPattern(b) ==
    /\ Len(b) = 21
    /\ Char(b, 1) = Quote /\ Char(b, 21) = Quote
    /\ \A i \in {2, 3, 4, 5, 7, 8, 10, 11, 13, 14, 16, 17, 19, 20} : isDigit(b, i)
    /\ Char(b, 6) = "-" /\ Char(b, 9) = "-" /\ Char(b, 12) = "T"
    /\ Char(b, 15) = ":" /\ Char(b, 18) = ":"

\* the days of a month of the Gregorian calendar
DaysOfMonth(year, month) ==
    IF month \in {4, 6, 9, 11} THEN 30
    ELSE IF month # 2 THEN 31
    ELSE IF (year % 4 = 0 /\ year % 100 # 0) \/ year % 400 = 0 THEN 29
    ELSE 28

\* a timestamp in the pattern that names a date and a time of day
ValidTimestamp(b) ==
    /\ MatchesPattern(b)
    /\ DigitsVal(SubSeq(b, 7, 8)) \in 1..12
    /\ DigitsVal(SubSeq(b, 10, 11)) \in
         1..DaysOfMonth(DigitsVal(SubSeq(b, 2, 5)), DigitsVal(SubSeq(b, 7, 8)))
    /\ DigitsVal(SubSeq(b, 13, 14)) \in 0..23
    /\ DigitsVal(SubSeq(b, 16, 17)) \in 0..59
    /\ DigitsVal(SubSeq(b, 19, 20)) \in 0..59

\* the blocks of a text report: the lines after the two header lines, cut
\* after each divider
RECURSIVE BlocksOf(_, _)
BlocksOf(lines, current) ==
    IF Len(lines) = 0 THEN << >>
    ELSE IF Head(lines) = Divider
         THEN << current >> \o BlocksOf(Tail(lines), << >>)
         ELSE BlocksOf(Tail(lines), Append(current, Head(lines)))

ReportBlocks == BlocksOf(SubSeq(resp.body, 3, Len(resp.body)), << >>)

IsDelayLine(line) == Len(line) >= 8 /\ SubSeq(line, 1, 8) = "  Delay:"

DelayLines(block) == SelectSeq(block, IsDelayLine)

\* an instant cut to its minute
MinuteOf(t) == <<t.day, t.sod \div 60>>

\* floor of (t - u) in minutes
FloorMinutes(t, u) == ((t.day - u.day) * 86400 + (t.sod - u.sod)
                         - (IF t.nsec < u.nsec THEN 1 ELSE 0)) \div 60

ErrorPrefix == "Error fetching departure data: "

\* the single upstream attempt failed: no connection, no body, no JSON, or a
\* timestamp that is not one
AttemptFailed ==
    \/ upstream.kind \in {"refused", "unreadable", "malformed"}
    \/ /\ upstream.kind = "list"
       /\ \E i \in DOMAIN upstream.departures :
            \/ ~ValidTimestamp(upstream.departures[i].scheduled)
            \/ ~ValidTimestamp(upstream.departures[i].expected)

-----------------------------------------------------------------------------
(* The claims. *)

\* C1: the list getDepartures returns on success is sorted ascending by
\* expected time (no record is expected before its predecessor) and holds
\* exactly the records that survived filtering: same multiset, nothing
\* added or lost.  Both handlers render this list.
C1_SortedSurvivors ==
    Succeeded =>
        /\ SortedByExpected(Returned)
        /\ SameRecords(Returned, SelectSeq(Delivered, Survives))

\* a request whose filter dropped a record and whose sort moved one
C1_Witness ==
    /\ Succeeded
    /\ Len(Returned) >= 2
    /\ Len(Returned) < Len(Delivered)
    /\ Returned # filtered

\* C2: sorting is stable: records with equal expected times appear in the
\* returned list in the relative order filterDepartures left them in.
C2_StableSort ==
    Succeeded =>
        \A i \in DOMAIN filtered :
            ExpectedAt(Returned, filtered[i].Expected)
              = ExpectedAt(filtered, filtered[i].Expected)

\* C3: filterDepartures keeps a record if and only if (lineId is empty or
\* parses as an integer equal to the record's line id) and (direction is
\* empty or equals the record's direction, case-sensitively); the kept
\* records are in their input order.  A lineId that is no integer keeps
\* nothing.
C3_FilterKeepsExactly ==
    Succeeded => filtered = SelectSeq(Delivered, Survives)

\* lineId=10 and direction=North on a list with a record of another line,
\* one of another direction, and one that is kept
C3_Witness ==
    /\ Succeeded
    /\ req.lineId = "10" /\ req.direction = "North"
    /\ filtered # << >>
    /\ \E i \in DOMAIN Delivered : Delivered[i].Line.ID = 20
    /\ \E i \in DOMAIN Delivered :
         Delivered[i].Line.ID = 10 /\ Delivered[i].Direction = "north"

C5_NeverNull ==
    (req.endpoint = "/departures/json" /\ Succeeded) =>
        /\ resp.status = 200
        /\ Len(resp.body) = 1
        /\ resp.body[1] # "null"
        /\ Char(resp.body[1], 1) = "[" /\ Char(resp.body[1], Len(resp.body[1])) = "]"
        /\ (Returned = << >> => resp.body = << "[]" >>)

\* the filter dropped every record of a non-empty list: getDepartures
\* returned the nil slice
C5_Witness ==
    /\ req.endpoint = "/departures/json" /\ Succeeded
    /\ upstream.kind = "list" /\ Len(upstream.departures) > 0
    /\ ret.departures = NilSlice
    /\ resp.body = << "[]" >>

\* C6: UnmarshalJSON returns an error, and does not crash, for every input
\* shorter than 2 characters; and every input that does not match the quoted
\* pattern ends in a returned error with the receiver's time unchanged.
C6_MalformedIsError ==
    (codec.pc # "start" /\ ~MatchesPattern(codec.b)) =>
        /\ codec.pc = "failed"
        /\ codec.err # ""
        /\ codec.ct = codec.old

\* C7: for every valid quoted timestamp in the pattern, UnmarshalJSON
\* succeeds and MarshalJSON of the decoded value is the input, byte for byte.
C7_RoundTrip ==
    (codec.pc # "start" /\ ValidTimestamp(codec.b)) =>
        /\ codec.pc \in {"decoded", "encoded"}
        /\ codec.pc = "encoded" => codec.out = codec.b

\* a leap day late in the evening, decoded and encoded again
C7_Witness ==
    /\ codec.pc = "encoded"
    /\ codec.b = Quote \o "2024-02-29T23:59:45" \o Quote
    /\ codec.out = codec.b

\* C8: in the text report a departure's block has a delay line exactly when
\* scheduled and expected differ at minute granularity, and the number
\* printed is the floor of (expected - scheduled) in minutes, negative when
\* expected precedes scheduled.
C8_FloorDelay ==
    (req.endpoint = "/departures" /\ Succeeded /\ Returned # << >>) =>
        /\ Len(ReportBlocks) = Len(Returned)
        /\ \A i \in DOMAIN Returned :
             LET d == Returned[i]
                 differ == MinuteOf(d.Scheduled) # MinuteOf(d.Expected)
                 lines == DelayLines(ReportBlocks[i])
             IN  /\ differ <=> Len(lines) = 1
                 /\ ~differ => Len(lines) = 0
                 /\ differ =>
                      lines = << "  Delay:     "
                                   \o Itoa(FloorMinutes(d.Expected, d.Scheduled))
                                   \o " minutes" >>

\* C9: filtering and sorting never mutate the fetched list: after
\* getDepartures, response.Departures holds the records as decoded, in
\* their order, and the returned slice is a new sequence.
C9_FetchedListUntouched ==
    Succeeded =>
        /\ mem.response = Delivered
        /\ ret.departures.arr # "response"

\* no filter: every record survives, and the sort reordered the result
C9_Witness ==
    /\ Succeeded
    /\ req.lineId = "" /\ req.direction = ""
    /\ Len(Returned) = Len(Delivered)
    /\ Returned # Delivered

\* C10: a request issues no upstream GET when siteId is missing and exactly
\* one otherwise; when that attempt fails the request is answered with
\* status 500 and a body that begins "Error fetching departure data: ", and
\* no report or array is written.
C10_OneAttemptThen500 ==
    req.endpoint # "" =>
        /\ gets = (IF req.siteId = "" THEN 0 ELSE 1)
        /\ (req.siteId # "" /\ AttemptFailed) =>
             /\ resp.status = 500
             /\ Len(resp.body) = 1
             /\ Len(resp.body[1]) >= Len(ErrorPrefix)
             /\ SubSeq(resp.body[1], 1, Len(ErrorPrefix)) = ErrorPrefix

=============================================================================
